---- MODULE Spec2Model ----
(***************************************************************************)
(* sitator: SOAPDescriptorAverages (site_descriptors/SOAP.py),             *)
(* SiteVolumes (site_descriptors/SiteVolumes.py) and Zeopy (util/zeo.py).  *)
(*                                                                         *)
(* The model follows one SOAPDescriptorAverages object from its            *)
(* construction (__init__) through one call of _get_descriptors: the       *)
(* counting pass, the planning of the output, the accumulation pass (one   *)
(* step per frame) and the final assertion and return.                     *)
(*                                                                         *)
(* numpy arrays indexed 0..n-1 are functions on 0..n-1.  A descriptor row  *)
(* is kept symbolically: the row's value is the sum, over the terms of the *)
(* sequence kept for the row, of soap(frame t, entity e) / div.            *)
(*                                                                         *)
(* SiteVolumes.compute_volumes is followed, under SpecVolumes, through one *)
(* call on one SiteNetwork: the checks on entry, one step per site of the  *)
(* loop, and the two add_site_attribute calls.                             *)
(* SiteVolumes.compute_accessable_volumes is followed, under               *)
(* SpecAccessable, through one call: one step per recentering of a site,   *)
(* one step storing the site's values, and the add_site_attribute call.    *)
(*                                                                         *)
(* A Zeopy object is followed, under SpecZeopy, from __init__ through any  *)
(* sequence of calls of __enter__, __exit__ and voronoi, together with the *)
(* temporary directories and the runs of the external tool.                *)
(***************************************************************************)
EXTENDS Integers, Sequences, FiniteSets, TLC

\* ------------------------------------------------------------------ bounds

\* frames of the two-entity, two-site trajectories
MaxFrames == 3
\* frames of the single-entity, single-site trajectories
MaxLongFrames == 6
\* occupancy of one site in the block trajectories (one entity visiting
\* site 0 c0 times, then site 1 c1 times)
MaxCount == 7
\* largest integer given for `averaging` / `avg_descriptors_per_site`
MaxParam == 3
\* largest integer given for `stepsize`
MaxStep == 2
\* sites of the SiteNetwork given to compute_volumes
MaxSites == 3
\* vertices of one site of that SiteNetwork
MaxVertices == 5
\* method calls on one Zeopy object, __init__ included
MaxCalls == 5
\* n_recenterings given to compute_accessable_volumes
MaxRecenterings == 3
\* largest hull volume of a recentering
MaxVolume == 2

\* ------------------------------------------------------------------ values

\* SiteTrajectory.SITE_UNKNOWN: the counts array has nsit + 1 slots and the
\* last one, which index -1 addresses, is dropped.
SITE_UNKNOWN == -1

\* A Python value given as a keyword argument: its type and, for numbers,
\* its value.  Absent: the key is not in kwargs.
PyInt(n) == [kind |-> "int", val |-> n]
PyNone == [kind |-> "NoneType", val |-> 0]
Absent == [kind |-> "absent", val |-> 0]

\* isinstance(v, int): bool is a subclass of int.
IsInstanceInt(v) == v.kind \in {"int", "bool"}

averaging_key == "averaging"
stepsize_key == "stepsize"
avg_desc_per_key == "avg_descriptors_per_site"
Keys == {averaging_key, stepsize_key, avg_desc_per_key}

\* The values the model passes: integers from -1 up, the float 2.0, True.
OtherValues == {[kind |-> "float", val |-> 2], [kind |-> "bool", val |-> 1]}
ModeValues == {PyInt(n) : n \in -1..MaxParam} \cup OtherValues
StepValues == {PyInt(n) : n \in -1..MaxStep} \cup OtherValues
KwargsSet ==
    {k \in [Keys -> ModeValues \cup StepValues \cup {Absent}] :
        k[stepsize_key] \in StepValues \cup {Absent}
        /\ k[averaging_key] \in ModeValues \cup {Absent}
        /\ k[avg_desc_per_key] \in ModeValues \cup {Absent}}

\* ------------------------------------------------------------------ inputs

\* A SiteTrajectory: n_sites sites, n_mob mobile entities, and traj, one
\* frame per time step, a frame giving each entity's site id or SITE_UNKNOWN.
RECURSIVE SeqsUpTo(_, _)
SeqsUpTo(S, n) ==
    IF n = 0 THEN {<< >>}
    ELSE LET shorter == SeqsUpTo(S, n - 1)
         IN shorter \cup {Append(s, x) : s \in {q \in shorter : Len(q) = n - 1}, x \in S}

Assignments(nsit) == {SITE_UNKNOWN} \cup (0..(nsit - 1))

\* two entities on two sites: several entities can share a site in a frame
WideInputs ==
    {[n_sites |-> 2, n_mob |-> 2, traj |-> tr] :
        tr \in SeqsUpTo(Assignments(2) \X Assignments(2), MaxFrames)}

\* one entity on one site, longer
LongInputs ==
    {[n_sites |-> 1, n_mob |-> 1, traj |-> tr] :
        tr \in {q \in SeqsUpTo({<<SITE_UNKNOWN>>, <<0>>}, MaxLongFrames) :
                    Len(q) > MaxFrames}}

\* one entity on two sites: c0 frames on site 0, then c1 frames on site 1
BlockTraj(c0, c1) == [i \in 1..(c0 + c1) |-> IF i <= c0 THEN <<0>> ELSE <<1>>]
BlockInputs ==
    {[n_sites |-> 2, n_mob |-> 1, traj |-> BlockTraj(c0, c1)] :
        c0 \in (MaxFrames + 1)..MaxCount, c1 \in 0..MaxCount}

Inputs == WideInputs \cup LongInputs \cup BlockInputs

NoInput == [n_sites |-> 1, n_mob |-> 1, traj |-> << >>]

\* The vertices of one site as compute_volumes sees them: their number, and
\* whether qhull fails on the recentred points.  Fewer than four points
\* span no volume in 3D, so qhull fails on them.
SiteVertices ==
    {v \in [n : 0..MaxVertices, degenerate : BOOLEAN] : v.n < 4 => v.degenerate}

\* The argument of compute_volumes: a SiteNetwork with vertices, one without
\* (sn.vertices is None), or an object that is no SiteNetwork.
SnWithVertices ==
    UNION {{[kind |-> "SiteNetwork", n_sites |-> n,
             vertices |-> [kind |-> "list", val |-> vs]] :
                vs \in [0..(n - 1) -> SiteVertices]} : n \in 0..MaxSites}
SnWithoutVertices ==
    {[kind |-> "SiteNetwork", n_sites |-> n, vertices |-> PyNone] : n \in 0..MaxSites}
NotASiteNetwork == [kind |-> "SiteTrajectory", n_sites |-> 0, vertices |-> PyNone]
SnInputs == SnWithVertices \cup SnWithoutVertices \cup {NotASiteNetwork}

\* What one site gives compute_accessable_volumes: whether any position is
\* associated with it, and for each recentering the volume of the hull of
\* the shifted and wrapped positions, or 0 where qhull fails on them.
QhullFails == 0
SitePositions(nrec) ==
    {p \in [empty : BOOLEAN, hulls : [0..(nrec - 1) -> 0..MaxVolume]] :
        p.empty => \A r \in 0..(nrec - 1) : p.hulls[r] = QhullFails}

\* The arguments of compute_accessable_volumes: a SiteTrajectory of up to
\* two sites and n_recenterings, or an object that is no SiteTrajectory.
StInputs(nrec) ==
    UNION {{[kind |-> "SiteTrajectory", n_sites |-> n, positions |-> ps] :
                ps \in [0..(n - 1) -> SitePositions(nrec)]} : n \in 0..2}
NotASiteTrajectory == [kind |-> "SiteNetwork", n_sites |-> 0, positions |-> << >>]

\* ------------------------------------------------------------------ state

VARIABLES
    pc,                     \* "new", "init_failed", "constructed", "plan",
                            \* "loop", "done"
    result,                 \* "none", "returned" or the exception raised
    kwargs,                 \* the keyword arguments of the constructor call
    self_stepsize,          \* self._stepsize
    self_averaging,         \* self._averaging
    self_avg_desc_per_site, \* self._avg_desc_per_site
    stn,                    \* the site trajectory given to _get_descriptors
    site_traj,              \* site_trajectory.traj[::self._stepsize]
    counts,
    averaging,
    averagings,
    nr_of_descs,
    descs,
    desc_index,
    max_index,
    count_of_site,
    allowed,
    t,                      \* frames of site_traj processed by the loop
    soaper_calls,           \* per processed frame: the entities described
    warnings,               \* logger.warning messages
    desc_to_site,           \* the label array returned
    \* SiteVolumes.compute_volumes
    vol_pc,                 \* "idle", "called", "sites", "done"
    vol_result,             \* "none", "returned" or the exception raised
    error_on_insufficient_coord,
    sn,                     \* the argument of compute_volumes
    site,                   \* the loop variable: the next site
    vols,
    areas,
    vol_warnings,           \* sites for which logger.warning was called
    site_attributes,        \* the attributes added to the SiteNetwork, by name
    \* SiteVolumes.compute_accessable_volumes (with site, vols, areas)
    st,                     \* the argument of compute_accessable_volumes
    n_recenterings,
    recentering,            \* the inner loop variable i: the next recentering
    vol,
    area,
    \* Zeopy
    zeo_pc,                 \* "idle", "new", "init_failed", "ready"
    self_exe,               \* self._exe
    self_tmpdir,            \* self._tmpdir
    tmp_dirs,               \* the temporary directories that exist
    tmp_made,               \* the directories tempfile.mkdtemp has made
    tmp_files,              \* the files in them, as <<directory, name>>
    tool_runs,              \* runs of the `network` executable
    zeo_log                 \* the calls made on the object, with outcome

soapVars == <<pc, result, kwargs, self_stepsize, self_averaging,
              self_avg_desc_per_site, stn, site_traj, counts, averaging,
              averagings, nr_of_descs, descs, desc_index, max_index,
              count_of_site, allowed, t, soaper_calls, warnings, desc_to_site>>
accVars == <<st, n_recenterings, recentering, vol, area>>
volVars == <<vol_pc, vol_result, error_on_insufficient_coord, sn, site, vols,
             areas, vol_warnings, site_attributes, accVars>>
zeoVars == <<zeo_pc, self_exe, self_tmpdir, tmp_dirs, tmp_made, tmp_files,
             tool_runs, zeo_log>>
vars == <<soapVars, volVars, zeoVars>>

objVars == <<self_stepsize, self_averaging, self_avg_desc_per_site>>
runVars == <<stn, site_traj, counts>>
planVars == <<averaging, averagings, nr_of_descs, max_index, warnings>>
loopVars == <<descs, desc_index, count_of_site, allowed, t, soaper_calls>>

Empty == [i \in {} |-> 0]

\* no SOAPDescriptorAverages object yet
SoapIdle ==
    /\ pc = "new"
    /\ result = "none"
    /\ self_stepsize = PyNone
    /\ self_averaging = PyNone
    /\ self_avg_desc_per_site = PyNone
    /\ stn = NoInput
    /\ site_traj = << >>
    /\ counts = Empty
    /\ averaging = 0
    /\ averagings = Empty
    /\ nr_of_descs = Empty
    /\ descs = Empty
    /\ desc_index = Empty
    /\ max_index = Empty
    /\ count_of_site = Empty
    /\ allowed = Empty
    /\ t = 0
    /\ soaper_calls = << >>
    /\ warnings = {}
    /\ desc_to_site = Empty

\* compute_accessable_volumes is not called
AccIdle ==
    /\ st = NotASiteTrajectory
    /\ n_recenterings = 0
    /\ recentering = 0
    /\ vol = PyNone
    /\ area = PyNone

\* no SiteVolumes object: compute_volumes is never called
VolIdle ==
    /\ vol_pc = "idle"
    /\ vol_result = "none"
    /\ error_on_insufficient_coord = TRUE
    /\ sn = NotASiteNetwork
    /\ site = 0
    /\ vols = Empty
    /\ areas = Empty
    /\ vol_warnings = {}
    /\ site_attributes = Empty
    /\ AccIdle

\* no Zeopy object
ZeoIdle ==
    /\ zeo_pc = "idle"
    /\ self_exe = PyNone
    /\ self_tmpdir = PyNone
    /\ tmp_dirs = {}
    /\ tmp_made = 0
    /\ tmp_files = {}
    /\ tool_runs = 0
    /\ zeo_log = << >>

Init ==
    /\ SoapIdle
    /\ kwargs \in KwargsSet
    /\ VolIdle
    /\ ZeoIdle

\* ------------------------------------------------------------ __init__

\* for k, v in d.items(): the first failing check of one item, or "ok"
CheckItem(v) ==
    IF ~IsInstanceInt(v) THEN "TypeError"
    ELSE IF ~(v.val > 0) THEN "ValueError"
    ELSE "ok"

\* d holds stepsize first, then the mode parameter (dict insertion order)
CheckItems(step, mode) ==
    IF CheckItem(step) # "ok" THEN CheckItem(step) ELSE CheckItem(mode)

\* Mutant of InitOutcome: stepsize is left out of the checked dictionary d.
InitOutcome_StepsizeUnchecked(kw) ==
    IF kw[averaging_key] # Absent /\ kw[avg_desc_per_key] # Absent
    THEN "AssertionError"
    ELSE IF kw[averaging_key] # Absent
    THEN CheckItem(kw[averaging_key])
    ELSE IF kw[avg_desc_per_key] # Absent
    THEN CheckItem(kw[avg_desc_per_key])
    ELSE "RuntimeError"

\* The outcome of SOAPDescriptorAverages.__init__(**kw): "ok" or the
\* exception raised.
InitOutcome(kw) ==
    LET step == IF kw[stepsize_key] # Absent THEN kw[stepsize_key] ELSE PyInt(1)
    IN IF kw[averaging_key] # Absent /\ kw[avg_desc_per_key] # Absent
       THEN "AssertionError"
       ELSE IF kw[averaging_key] # Absent
       THEN CheckItems(step, kw[averaging_key])
       ELSE IF kw[avg_desc_per_key] # Absent
       THEN CheckItems(step, kw[avg_desc_per_key])
       ELSE "RuntimeError"

\* A validated value as the integer it is used as (True is 1).
AsInt(v) == PyInt(v.val)

Construct ==
    /\ pc = "new"
    /\ LET outcome == InitOutcome(kwargs)
       IN IF outcome = "ok"
          THEN /\ pc' = "constructed"
               /\ result' = "none"
               /\ self_stepsize' =
                    IF kwargs[stepsize_key] # Absent
                    THEN AsInt(kwargs[stepsize_key]) ELSE PyInt(1)
               /\ self_averaging' =
                    IF kwargs[averaging_key] # Absent
                    THEN AsInt(kwargs[averaging_key]) ELSE PyNone
               /\ self_avg_desc_per_site' =
                    IF kwargs[averaging_key] # Absent
                    THEN PyNone ELSE AsInt(kwargs[avg_desc_per_key])
               \* kwargs.pop: the three keys are consumed
               /\ kwargs' = [k \in Keys |-> Absent]
          ELSE /\ pc' = "init_failed"
               /\ result' = outcome
               /\ UNCHANGED <<kwargs, objVars>>
    /\ UNCHANGED <<runVars, planVars, loopVars, desc_to_site, volVars, zeoVars>>

\* ------------------------------------------------------- _get_descriptors

\* Python's index into an array of n slots: a negative index counts from
\* the end.
PyIndex(i, n) == IF i < 0 THEN i + n ELSE i

\* site_trajectory.traj[::stepsize]
Stride(tr, step) ==
    [i \in 1..((Len(tr) + step - 1) \div step) |-> tr[(i - 1) * step + 1]]

\* Mutant of CountFrame: every entity of the frame adds one (np.add.at).
CountFrame_AddAt(c, frame, n) ==
    [i \in 0..(n - 1) |->
        c[i] + Cardinality({e \in DOMAIN frame : PyIndex(frame[e], n) = i})]

\* counts[frame] += 1 on the array of n slots: numpy reads, adds and writes
\* back, so an index given several times in `frame` is still incremented once.
CountFrame(c, frame, n) ==
    [i \in 0..(n - 1) |->
        c[i] + (IF \E e \in DOMAIN frame : PyIndex(frame[e], n) = i THEN 1 ELSE 0)]

RECURSIVE CountFrames(_, _, _, _)
CountFrames(c, tr, k, n) ==
    IF k > Len(tr) THEN c
    ELSE CountFrames(CountFrame(c, tr[k], n), tr, k + 1, n)

\* counts = zeros(nsit + 1); for frame in site_traj: ...; counts[:-1]
CountOccupancy(tr, nsit) ==
    LET c == CountFrames([i \in 0..nsit |-> 0], tr, 1, nsit + 1)
    IN [s \in 0..(nsit - 1) |-> c[s]]

\* lines 253-266 of _get_descriptors, called with one of the inputs
GetDescriptors ==
    /\ pc = "constructed"
    /\ \E input \in Inputs :
        /\ stn' = input
        /\ site_traj' = Stride(input.traj, self_stepsize.val)
        /\ counts' = CountOccupancy(site_traj', input.n_sites)
    /\ pc' = "plan"
    /\ UNCHANGED <<result, kwargs, objVars, planVars, loopVars, desc_to_site, volVars, zeoVars>>

\* np.sum(a[:i])
RECURSIVE SumTo(_, _)
SumTo(a, i) == IF i = 0 THEN 0 ELSE SumTo(a, i - 1) + a[i - 1]

\* Mutant of FloorMeanOver: the sum of the counts in place of their mean.
FloorMeanOver_Sum(cnts, nsit, per) == SumTo(cnts, nsit) \div per

\* int(np.floor(np.mean(counts) / per)): the mean is sum / nsit, so the
\* floor of mean / per is the integer quotient of sum by nsit * per.
FloorMeanOver(cnts, nsit, per) == SumTo(cnts, nsit) \div (nsit * per)

\* lines 268-271: the number of vectors to average, before the zero check
ResolveAveraging(avg, per, cnts, nsit) ==
    IF avg # PyNone THEN avg.val ELSE FloorMeanOver(cnts, nsit, per.val)

\* lines 274-276
ZeroAveragingWarning == "Asking for too many average descriptors per site"
ClampAveraging(a) == IF a = 0 THEN 1 ELSE a

\* line 278
RawNrOfDescs(cnts, a) == [s \in DOMAIN cnts |-> cnts[s] \div a]

\* lines 279-281
InsufficientWarning == "sites are insufficiently occupied"
Insufficient(cnts, a) == {s \in DOMAIN cnts : RawNrOfDescs(cnts, a)[s] = 0}

\* Mutant of Averagings: line 283 left out, every site divides by `averaging`.
Averagings_Uniform(cnts, a) == [s \in DOMAIN cnts |-> a]

\* lines 282-283
Averagings(cnts, a) ==
    [s \in DOMAIN cnts |-> IF s \in Insufficient(cnts, a) THEN cnts[s] ELSE a]

\* Mutant of NrOfDescs: the number of rows is rounded up, a row is planned
\* for the trailing frames that do not fill a window.
NrOfDescs_Ceil(cnts, a) ==
    [s \in DOMAIN cnts |->
        IF cnts[s] > a THEN (cnts[s] + a - 1) \div a ELSE 1]

\* line 284: np.maximum(nr_of_descs, 1)
NrOfDescs(cnts, a) ==
    [s \in DOMAIN cnts |->
        IF RawNrOfDescs(cnts, a)[s] > 1 THEN RawNrOfDescs(cnts, a)[s] ELSE 1]

\* line 288: np.zeros(shape = (np.sum(nr_of_descs), n_dim)); a zero row has
\* no term
ZeroDescs(nr, nsit) == [i \in 0..(SumTo(nr, nsit) - 1) |-> << >>]

\* Mutant of DescIndex: every site starts at row 0 (the np.cumsum and the
\* shift of line 291 left out).
DescIndex_Zeros(nr, nsit) == [s \in 0..(nsit - 1) |-> 0]

\* lines 291-292
DescIndex(nr, nsit) == [s \in 0..(nsit - 1) |-> SumTo(nr, s)]
MaxIndex(nr, nsit) == [s \in 0..(nsit - 1) |-> SumTo(nr, s + 1)]

Plan ==
    /\ pc = "plan"
    /\ LET nsit == stn.n_sites
           a0 == ResolveAveraging(self_averaging, self_avg_desc_per_site, counts, nsit)
           a == ClampAveraging(a0)
           nr == NrOfDescs(counts, a)
       IN /\ averaging' = a
          /\ warnings' =
                (IF a0 = 0 THEN {ZeroAveragingWarning} ELSE {})
                \cup (IF Insufficient(counts, a) # {} THEN {InsufficientWarning} ELSE {})
          /\ averagings' = Averagings(counts, a)
          /\ nr_of_descs' = nr
          /\ descs' = ZeroDescs(nr, nsit)
          /\ desc_index' = DescIndex(nr, nsit)
          /\ max_index' = MaxIndex(nr, nsit)
          /\ count_of_site' = [s \in 0..(nsit - 1) |-> 0]
          /\ allowed' = [s \in 0..(nsit - 1) |-> TRUE]
    /\ t' = 0
    /\ soaper_calls' = << >>
    /\ pc' = "loop"
    /\ UNCHANGED <<result, kwargs, objVars, runVars, desc_to_site, volVars, zeoVars>>

\* Mutant of ToDescribe: the `allowed` mask is not applied.
ToDescribe_IgnoreAllowed(frame, alw, nsit) ==
    {e \in DOMAIN frame : frame[e] # SITE_UNKNOWN}

\* line 301: (site_traj_t != SITE_UNKNOWN) & allowed[site_traj_t]
ToDescribe(frame, alw, nsit) ==
    {e \in DOMAIN frame :
        frame[e] # SITE_UNKNOWN /\ alw[PyIndex(frame[e], nsit)]}

\* Mutant of Term: every vector is divided by the global `averaging`.
Term_GlobalAveraging(frame, avgs, tt, e) == [t |-> tt, e |-> e, div |-> averaging]

\* The vector of entity e in frame tt, divided by its site's divisor
\* (line 306), as a term of a row.
Term(frame, avgs, tt, e) == [t |-> tt, e |-> e, div |-> avgs[frame[e]]]

\* lines 304-308: soaps /= averagings[sites_to_describe];
\* descs[desc_index[sites_to_describe]] += soaps.  The right-hand side is
\* computed from the old rows and then assigned through the index array:
\* when several selected entities have the same row index, one of their
\* sums stays in the row, and numpy leaves open which.  The value is the
\* set of arrays the statement can leave.
AddDescs(d, frame, sel, idx, avgs, tt) ==
    LET Writers(i) == {e \in sel : idx[frame[e]] = i}
        hit == {i \in DOMAIN d : Writers(i) # {}}
        kept == {c \in [hit -> sel] : \A i \in hit : c[i] \in Writers(i)}
    IN {[i \in DOMAIN d |->
            IF i \in hit THEN Append(d[i], Term(frame, avgs, tt, c[i])) ELSE d[i]] :
        c \in kept}

\* Mutant of BumpCounts: the count is raised once per selected entity
\* (np.add.at in place of the in-place add through the index array).
BumpCounts_PerEntity(cs, frame, sel) ==
    [s \in DOMAIN cs |-> cs[s] + Cardinality({e \in sel : frame[e] = s})]

\* line 309: count_of_site[sites_to_describe] += 1
BumpCounts(cs, frame, sel) ==
    [s \in DOMAIN cs |->
        cs[s] + (IF \E e \in sel : frame[e] = s THEN 1 ELSE 0)]

\* line 312
FullAverage(cs, avgs) == {s \in DOMAIN cs : cs[s] = avgs[s]}

\* line 313
AdvanceIndex(idx, full) == [s \in DOMAIN idx |-> IF s \in full THEN idx[s] + 1 ELSE idx[s]]

\* Mutant of ResetCounts: line 314 left out.
ResetCounts_Kept(cs, full) == cs

\* line 314
ResetCounts(cs, full) == [s \in DOMAIN cs |-> IF s \in full THEN 0 ELSE cs[s]]

\* Mutant of Disallow: a site is cleared only once desc_index has passed
\* max_index.
Disallow_Late(alw, mx, idx) == [s \in DOMAIN alw |-> IF idx[s] > mx[s] THEN FALSE ELSE alw[s]]

\* Mutant of Disallow: the mask is recomputed, allowed = (max_index !=
\* desc_index), in place of clearing the entries that became equal.
Disallow_Recomputed(alw, mx, idx) == [s \in DOMAIN alw |-> mx[s] # idx[s]]

\* line 315
Disallow(alw, mx, idx) == [s \in DOMAIN alw |-> IF mx[s] = idx[s] THEN FALSE ELSE alw[s]]

\* one iteration of the loop over zip(site_traj, real_traj)
AccumulateFrame ==
    /\ pc = "loop"
    /\ t < Len(site_traj)
    /\ LET tt == t + 1
           frame == site_traj[tt]
           sel == ToDescribe(frame, allowed, stn.n_sites)
           cs == IF sel # {} THEN BumpCounts(count_of_site, frame, sel) ELSE count_of_site
           full == FullAverage(cs, averagings)
       IN /\ IF sel # {}
             THEN descs' \in AddDescs(descs, frame, sel, desc_index, averagings, tt)
             ELSE descs' = descs
          /\ soaper_calls' = Append(soaper_calls, [called |-> sel # {}, entities |-> sel])
          /\ desc_index' = AdvanceIndex(desc_index, full)
          /\ count_of_site' = ResetCounts(cs, full)
          /\ allowed' = Disallow(allowed, max_index, desc_index')
          /\ t' = tt
    /\ UNCHANGED <<pc, result, kwargs, objVars, runVars, planVars, desc_to_site,
                   volVars, zeoVars>>

\* Mutant of AssertExhausted: the assertion is not made.
AssertExhausted_Skipped(alw) == TRUE

\* line 317: assert not np.any(allowed)
AssertExhausted(alw) == \A s \in DOMAIN alw : ~alw[s]

\* line 319: np.repeat(list(range(nsit)), nr_of_descs)
RECURSIVE Repeat(_, _, _)
Repeat(s, nsit, nr) ==
    IF s = nsit THEN << >>
    ELSE [i \in 1..nr[s] |-> s] \o Repeat(s + 1, nsit, nr)

\* Mutant of DescToSite: one label per site, np.arange(nsit).
DescToSite_Arange(nsit, nr) == [i \in 0..(nsit - 1) |-> i]

\* Mutant of DescToSite: np.tile in place of np.repeat, the site ids cycled
\* over the rows.
DescToSite_Tiled(nsit, nr) == [i \in 0..(SumTo(nr, nsit) - 1) |-> i % nsit]

DescToSite(nsit, nr) ==
    LET r == Repeat(0, nsit, nr) IN [i \in 0..(Len(r) - 1) |-> r[i + 1]]

Finish ==
    /\ pc = "loop"
    /\ t = Len(site_traj)
    /\ pc' = "done"
    /\ IF AssertExhausted(allowed)
       THEN /\ result' = "returned"
            /\ desc_to_site' = DescToSite(stn.n_sites, nr_of_descs)
       ELSE /\ result' = "AssertionError"
            /\ UNCHANGED desc_to_site
    /\ UNCHANGED <<kwargs, objVars, runVars, planVars, loopVars, volVars, zeoVars>>

Next ==
    \/ Construct
    \/ GetDescriptors
    \/ Plan
    \/ AccumulateFrame
    \/ Finish

Spec == Init /\ [][Next]_vars

\* ------------------------------------------- SiteVolumes.compute_volumes

\* The values of the float arrays.  np.empty leaves a slot uninitialised;
\* hull.volume and hull.area of a site are kept as names.
Uninitialised == [kind |-> "uninitialised", val |-> 0]
Float(x) == [kind |-> "float", val |-> x]
NaN == [kind |-> "nan", val |-> 0]
HullVolume(s) == [kind |-> "hull.volume", val |-> s]
HullArea(s) == [kind |-> "hull.area", val |-> s]

site_volumes == "site_volumes"
site_surface_areas == "site_surface_areas"

\* a SiteVolumes object and the SiteNetwork its compute_volumes is called on
InitVolumes ==
    /\ SoapIdle
    /\ ZeoIdle
    /\ kwargs = [k \in Keys |-> Absent]
    /\ vol_pc = "called"
    /\ vol_result = "none"
    /\ error_on_insufficient_coord \in BOOLEAN
    /\ sn \in SnInputs
    /\ site = 0
    /\ vols = Empty
    /\ areas = Empty
    /\ vol_warnings = {}
    /\ site_attributes = Empty
    /\ AccIdle

\* lines 94-99: the checks on entry and the allocation of the two arrays
ComputeVolumes ==
    /\ vol_pc = "called"
    /\ IF sn.kind # "SiteNetwork"
       THEN /\ vol_pc' = "done"
            /\ vol_result' = "AssertionError"
            /\ UNCHANGED <<vols, areas>>
       ELSE IF sn.vertices.kind = "NoneType"
       THEN /\ vol_pc' = "done"
            /\ vol_result' = "ValueError"
            /\ UNCHANGED <<vols, areas>>
       ELSE /\ vol_pc' = "sites"
            /\ vols' = [s \in 0..(sn.n_sites - 1) |-> Uninitialised]
            /\ areas' = [s \in 0..(sn.n_sites - 1) |-> Uninitialised]
            /\ UNCHANGED vol_result
    /\ UNCHANGED <<error_on_insufficient_coord, sn, site, vol_warnings,
                   site_attributes, accVars, soapVars, zeoVars>>

\* lines 119-126: ConvexHull(pos) and its except QhullError branch
HullOf(v, s) ==
    IF v.degenerate
    THEN [vol |-> NaN, area |-> NaN, warned |-> TRUE]
    ELSE [vol |-> HullVolume(s), area |-> HullArea(s), warned |-> FALSE]

\* Mutant of SiteValues: the `continue` of line 111 left out, the hull is
\* attempted for every site.
SiteValues_NoContinue(v, s) == HullOf(v, s)

\* lines 105-126 when nothing is raised: what the iteration for site s
\* stores
SiteValues(v, s) ==
    IF v.n < 4
    THEN [vol |-> Float(0), area |-> NaN, warned |-> FALSE]
    ELSE HullOf(v, s)

\* lines 103-126: one iteration of the loop; `site` is the site the
\* iteration is for
VolumeOfSite ==
    /\ vol_pc = "sites"
    /\ site < sn.n_sites
    /\ LET v == sn.vertices.val[site]
           x == SiteValues(v, site)
       IN IF v.n < 4 /\ error_on_insufficient_coord
          THEN /\ vol_pc' = "done"
               /\ vol_result' = "InsufficientCoordinatingAtomsError"
               /\ UNCHANGED <<site, vols, areas, vol_warnings>>
          ELSE /\ vols' = [vols EXCEPT ![site] = x.vol]
               /\ areas' = [areas EXCEPT ![site] = x.area]
               /\ vol_warnings' = vol_warnings \cup (IF x.warned THEN {site} ELSE {})
               /\ site' = site + 1
               /\ UNCHANGED <<vol_pc, vol_result>>
    /\ UNCHANGED <<error_on_insufficient_coord, sn, site_attributes, accVars,
                   soapVars, zeoVars>>

\* lines 128-129, after the last iteration
AddSiteAttributes ==
    /\ vol_pc = "sites"
    /\ site = sn.n_sites
    /\ site_attributes' =
        [a \in {site_volumes, site_surface_areas} |->
            IF a = site_volumes THEN vols ELSE areas]
    /\ vol_pc' = "done"
    /\ vol_result' = "returned"
    /\ UNCHANGED <<error_on_insufficient_coord, sn, site, vols, areas,
                   vol_warnings, accVars, soapVars, zeoVars>>

NextVolumes ==
    \/ ComputeVolumes
    \/ VolumeOfSite
    \/ AddSiteAttributes

SpecVolumes == InitVolumes /\ [][NextVolumes]_vars

\* ------------------------------- SiteVolumes.compute_accessable_volumes

Inf == [kind |-> "inf", val |-> 0]
accessable_site_volumes == "accessable_site_volumes"

\* a SiteVolumes object and the arguments its compute_accessable_volumes is
\* called with
InitAccessable ==
    /\ SoapIdle
    /\ ZeoIdle
    /\ kwargs = [k \in Keys |-> Absent]
    /\ vol_pc = "acc_called"
    /\ vol_result = "none"
    /\ error_on_insufficient_coord \in BOOLEAN
    /\ sn = NotASiteNetwork
    /\ site = 0
    /\ vols = Empty
    /\ areas = Empty
    /\ vol_warnings = {}
    /\ site_attributes = Empty
    /\ n_recenterings \in 0..MaxRecenterings
    /\ st \in StInputs(n_recenterings) \cup {NotASiteTrajectory}
    /\ recentering = 0
    /\ vol = PyNone
    /\ area = PyNone

\* lines 45-47: the assertion on entry and the allocation of the two arrays
ComputeAccessableVolumes ==
    /\ vol_pc = "acc_called"
    /\ IF st.kind # "SiteTrajectory"
       THEN /\ vol_pc' = "done"
            /\ vol_result' = "AssertionError"
            /\ UNCHANGED <<vols, areas>>
       ELSE /\ vol_pc' = "acc_site"
            /\ vols' = [s \in 0..(st.n_sites - 1) |-> Uninitialised]
            /\ areas' = [s \in 0..(st.n_sites - 1) |-> Uninitialised]
            /\ UNCHANGED vol_result
    /\ UNCHANGED <<error_on_insufficient_coord, sn, site, vol_warnings,
                   site_attributes, accVars, soapVars, zeoVars>>

\* lines 51-57: the head of the iteration for `site`
BeginSite ==
    /\ vol_pc = "acc_site"
    /\ site < st.n_sites
    /\ vol' = Inf
    /\ area' = PyNone
    /\ recentering' = 0
    /\ vol_pc' = "acc_recenter"
    /\ UNCHANGED <<vol_result, error_on_insufficient_coord, sn, site, vols, areas,
                   vol_warnings, site_attributes, st, n_recenterings, soapVars,
                   zeoVars>>

\* line 72: hull.volume < vol
VolumeLess(h, v) == v.kind = "inf" \/ h < v.val

\* lines 58-74: one recentering.  pos[...] of line 60 raises IndexError when
\* the site has no position.
Recenter ==
    /\ vol_pc = "acc_recenter"
    /\ recentering < n_recenterings
    /\ LET p == st.positions[site]
           h == p.hulls[recentering]
       IN IF p.empty
          THEN /\ vol_pc' = "done"
               /\ vol_result' = "IndexError"
               /\ UNCHANGED <<vols, areas, vol_warnings, recentering, vol, area>>
          ELSE IF h = QhullFails
          THEN /\ vol_warnings' = vol_warnings \cup {<<site, recentering>>}
               /\ vols' = [vols EXCEPT ![site] = NaN]
               /\ areas' = [areas EXCEPT ![site] = NaN]
               /\ recentering' = recentering + 1
               /\ UNCHANGED <<vol_pc, vol_result, vol, area>>
          ELSE /\ IF VolumeLess(h, vol)
                  THEN vol' = Float(h) /\ area' = HullArea(recentering)
                  ELSE UNCHANGED <<vol, area>>
               /\ recentering' = recentering + 1
               /\ UNCHANGED <<vol_pc, vol_result, vols, areas, vol_warnings>>
    /\ UNCHANGED <<error_on_insufficient_coord, sn, site, site_attributes, st,
                   n_recenterings, soapVars, zeoVars>>

\* lines 76-77, after the last recentering; a float array stores None as nan
StoreSite ==
    /\ vol_pc = "acc_recenter"
    /\ recentering = n_recenterings
    /\ vols' = [vols EXCEPT ![site] = vol]
    /\ areas' = [areas EXCEPT ![site] = IF area = PyNone THEN NaN ELSE area]
    /\ site' = site + 1
    /\ vol_pc' = "acc_site"
    /\ UNCHANGED <<vol_result, error_on_insufficient_coord, sn, vol_warnings,
                   site_attributes, accVars, soapVars, zeoVars>>

\* line 79, after the last site
AddAccessableAttribute ==
    /\ vol_pc = "acc_site"
    /\ site = st.n_sites
    /\ site_attributes' = [a \in {accessable_site_volumes} |-> vols]
    /\ vol_pc' = "done"
    /\ vol_result' = "returned"
    /\ UNCHANGED <<error_on_insufficient_coord, sn, site, vols, areas,
                   vol_warnings, accVars, soapVars, zeoVars>>

NextAccessable ==
    \/ ComputeAccessableVolumes
    \/ BeginSite
    \/ Recenter
    \/ StoreSite
    \/ AddAccessableAttribute

SpecAccessable == InitAccessable /\ [][NextAccessable]_vars

\* ------------------------------------------------------------------ Zeopy

PyStr(x) == [kind |-> "str", val |-> x]

in_cif == "in.cif"
out_nt2 == "out.nt2"
out_v1 == "out.v1"

\* What a run of the `network` executable can do: exit with status 0 and
\* output that passes the assertion of line 86, exit with status 0 and a
\* cell that fails it, or exit with a non-zero status.
ToolOutcomes == {"ok", "cell_mismatch", "nonzero"}

\* a Zeopy(path_to_zeo) call is about to run
InitZeopy ==
    /\ SoapIdle
    /\ kwargs = [k \in Keys |-> Absent]
    /\ VolIdle
    /\ zeo_pc = "new"
    /\ self_exe = PyNone
    /\ self_tmpdir = PyNone
    /\ tmp_dirs = {}
    /\ tmp_made = 0
    /\ tmp_files = {}
    /\ tool_runs = 0
    /\ zeo_log = << >>

\* one call in the log: the method, how it ended, whether it ran the tool
\* and whether it wrote into a temporary directory
Call(m, r, ran, wrote) ==
    [call |-> m, result |-> r, ran_tool |-> ran, wrote |-> wrote]

\* lines 29-37
ZeopyInit ==
    /\ zeo_pc = "new"
    /\ \E executable \in BOOLEAN :
        IF ~executable
        THEN /\ zeo_pc' = "init_failed"
             /\ zeo_log' = Append(zeo_log, Call("__init__", "ValueError", FALSE, FALSE))
             /\ UNCHANGED <<self_exe, self_tmpdir>>
        ELSE /\ zeo_pc' = "ready"
             /\ self_exe' = PyStr("path_to_zeo")
             /\ self_tmpdir' = PyNone
             /\ zeo_log' = Append(zeo_log, Call("__init__", "returned", FALSE, FALSE))
    /\ UNCHANGED <<tmp_dirs, tmp_made, tmp_files, tool_runs, soapVars, volVars>>

\* lines 39-40: tempfile.mkdtemp() makes a directory that did not exist
Enter ==
    /\ zeo_pc = "ready"
    /\ Len(zeo_log) < MaxCalls
    /\ tmp_made' = tmp_made + 1
    /\ tmp_dirs' = tmp_dirs \cup {tmp_made'}
    /\ self_tmpdir' = PyStr(tmp_made')
    /\ zeo_log' = Append(zeo_log, Call("__enter__", "returned", FALSE, FALSE))
    /\ UNCHANGED <<zeo_pc, self_exe, tmp_files, tool_runs, soapVars, volVars>>

\* lines 42-43: shutil.rmtree(self._tmpdir) raises TypeError on None and an
\* OSError (IOError) on a directory that does not exist; nothing is
\* assigned to self._tmpdir
Exit ==
    /\ zeo_pc = "ready"
    /\ Len(zeo_log) < MaxCalls
    /\ IF self_tmpdir.kind = "NoneType"
       THEN /\ zeo_log' = Append(zeo_log, Call("__exit__", "TypeError", FALSE, FALSE))
            /\ UNCHANGED <<tmp_dirs, tmp_files>>
       ELSE IF self_tmpdir.val \notin tmp_dirs
       THEN /\ zeo_log' = Append(zeo_log, Call("__exit__", "IOError", FALSE, FALSE))
            /\ UNCHANGED <<tmp_dirs, tmp_files>>
       ELSE /\ tmp_dirs' = tmp_dirs \ {self_tmpdir.val}
            /\ tmp_files' = {f \in tmp_files : f[1] # self_tmpdir.val}
            /\ zeo_log' = Append(zeo_log, Call("__exit__", "returned", FALSE, FALSE))
    /\ UNCHANGED <<zeo_pc, self_exe, self_tmpdir, tmp_made, tool_runs, soapVars,
                   volVars>>

\* lines 45-108.  After the check of line 50 the method writes in.cif into
\* self._tmpdir (line 57; ase.io.write cannot open a file in a directory
\* that does not exist), runs the tool (line 68) and reads its two output
\* files.  On a non-zero exit status the except branch evaluates sys.stderr
\* (line 71), and the module does not import sys.
Voronoi ==
    /\ zeo_pc = "ready"
    /\ Len(zeo_log) < MaxCalls
    /\ \E outcome \in ToolOutcomes :
        IF self_tmpdir.kind = "NoneType"
        THEN /\ zeo_log' = Append(zeo_log, Call("voronoi", "ValueError", FALSE, FALSE))
             /\ UNCHANGED <<tmp_files, tool_runs>>
        ELSE IF self_tmpdir.val \notin tmp_dirs
        THEN /\ zeo_log' = Append(zeo_log, Call("voronoi", "IOError", FALSE, FALSE))
             /\ UNCHANGED <<tmp_files, tool_runs>>
        ELSE LET d == self_tmpdir.val
             IN /\ tool_runs' = tool_runs + 1
                /\ tmp_files' =
                    tmp_files \cup {<<d, in_cif>>}
                    \cup (IF outcome = "nonzero" THEN {}
                          ELSE {<<d, out_nt2>>, <<d, out_v1>>})
                /\ zeo_log' = Append(zeo_log,
                    Call("voronoi",
                         CASE outcome = "ok" -> "returned"
                           [] outcome = "cell_mismatch" -> "AssertionError"
                           [] outcome = "nonzero" -> "NameError",
                         TRUE, TRUE))
    /\ UNCHANGED <<zeo_pc, self_exe, self_tmpdir, tmp_dirs, tmp_made, soapVars,
                   volVars>>

NextZeopy ==
    \/ ZeopyInit
    \/ Enter
    \/ Exit
    \/ Voronoi

SpecZeopy == InitZeopy /\ [][NextZeopy]_vars

\* ================================================================ claims

Errors == {"AssertionError", "RuntimeError", "TypeError", "ValueError"}

\* the states from the end of the counting pass on
Counted == pc \in {"plan", "loop", "done"}
\* the states from the end of the planning on
Planned == pc \in {"loop", "done"}
Sites == DOMAIN counts
Entities == 1..stn.n_mob

\* ---------------------------------------------------------------- C10

\* A supplied parameter is a positive integer (Python's integers: bool is
\* one of them).
PositiveInteger(v) == v.kind \in {"int", "bool"} /\ v.val >= 1

\* Exactly one of the two mode parameters is supplied, and every supplied
\* parameter is a positive integer.
ValidConfiguration(kw) ==
    /\ (kw[averaging_key] # Absent) # (kw[avg_desc_per_key] # Absent)
    /\ \A k \in Keys : kw[k] # Absent => PositiveInteger(kw[k])

\* C10: constructing the engine fails with an error, before any trajectory
\* is processed, when both or neither mode parameter is supplied or a
\* supplied parameter (averaging, avg_descriptors_per_site, stepsize) is not
\* a positive integer; it succeeds when exactly one positive-integer mode
\* parameter is given (with a positive-integer stepsize, if one is given).
C10_ConstructorValidation ==
    [][pc = "new" =>
        /\ ValidConfiguration(kwargs) => pc' = "constructed" /\ result' = "none"
        /\ ~ValidConfiguration(kwargs) =>
            /\ pc' = "init_failed"
            /\ result' \in Errors
            /\ UNCHANGED <<objVars, runVars, planVars, loopVars, desc_to_site>>]_vars

\* a construction refused for its stepsize alone
C10_Witness ==
    /\ pc = "init_failed"
    /\ result = "ValueError"
    /\ kwargs[stepsize_key] = PyInt(0)
    /\ kwargs[averaging_key] = PyInt(2)
    /\ kwargs[avg_desc_per_key] = Absent

\* ----------------------------------------------------------------- C7

\* the frames of the trajectory the stride selects: every stepsize-th one,
\* from the first
Selected == {k \in 1..Len(stn.traj) : (k - 1) % self_stepsize.val = 0}

\* the (entity, frame) pairs of the selected frames assigned to site s
PairsOn(s) == {p \in Selected \X Entities : stn.traj[p[1]][p[2]] = s}

\* the selected frames in which at least one entity is assigned to site s
FramesOn(s) == {k \in Selected : \E e \in Entities : stn.traj[k][e] = s}

\* C7 as stated: counts[s] is the number of (entity, frame) pairs of the
\* stride-selected frames assigned to s, several entities on the same site
\* in the same frame each adding one.
C7_CountsEveryPair ==
    Counted => \A s \in Sites : counts[s] = Cardinality(PairsOn(s))

\* C7 amended: counts[s] is the number of stride-selected frames in which
\* at least one entity is assigned to s; unknown assignments are ignored,
\* and several entities on the same site in the same frame add one in all.
C7_CountsOccupiedFrames ==
    Counted =>
        /\ Sites = 0..(stn.n_sites - 1)
        /\ \A s \in Sites : counts[s] = Cardinality(FramesOn(s))

\* counted: a frame with two entities on one site, another with an unknown
C7_Witness ==
    /\ pc = "plan"
    /\ \E s \in Sites :
        /\ counts[s] >= 1
        /\ counts[s] < Cardinality(PairsOn(s))
    /\ \E k \in Selected : \E e \in Entities : stn.traj[k][e] = SITE_UNKNOWN

\* ----------------------------------------------------------------- C8

\* C8: with divisor candidate D = averaging, a site with counts[s] // D >= 1
\* gets planned_count[s] = counts[s] // D and divisor[s] = D; a site with
\* counts[s] // D = 0 gets planned_count[s] = 1 and divisor[s] = counts[s].
C8_PerSitePlanning ==
    Planned =>
        \A s \in Sites :
            /\ counts[s] \div averaging >= 1 =>
                /\ nr_of_descs[s] = counts[s] \div averaging
                /\ averagings[s] = averaging
            /\ counts[s] \div averaging = 0 =>
                /\ nr_of_descs[s] = 1
                /\ averagings[s] = counts[s]

\* the claim's example: fixed window 3, counts {0: 7, 1: 2}
C8_Witness ==
    /\ pc = "loop"
    /\ self_averaging = PyInt(3)
    /\ stn.n_sites = 2
    /\ counts[0] = 7 /\ counts[1] = 2
    /\ nr_of_descs[0] = 2 /\ nr_of_descs[1] = 1
    /\ averagings[1] = 2
    /\ Cardinality(DOMAIN descs) = 3

\* ----------------------------------------------------------------- C9

\* m = floor(mean(counts) / T), the mean being sum(counts) / n_sites
IsFloorOfMeanOver(m, T) ==
    LET sum == SumTo(counts, stn.n_sites)
    IN m * stn.n_sites * T <= sum /\ sum < (m + 1) * stn.n_sites * T

\* the divisor candidate the claim describes, and its warning
CandidateAsClaimed ==
    /\ self_averaging # PyNone =>
        /\ averaging = self_averaging.val
        /\ ZeroAveragingWarning \notin warnings
    /\ self_averaging = PyNone =>
        \E m \in 0..SumTo(counts, stn.n_sites) :
            /\ IsFloorOfMeanOver(m, self_avg_desc_per_site.val)
            /\ averaging = (IF m = 0 THEN 1 ELSE m)
            /\ ZeroAveragingWarning \in warnings <=> m = 0

\* C9: in target mode the divisor candidate is floor(mean(counts) / T),
\* computed once for the run, replaced by 1 with a warning when it is 0,
\* and the run continues; in fixed-window mode it is W.
C9_DivisorCandidate ==
    [][/\ pc = "plan" => pc' = "loop" /\ result' = "none" /\ CandidateAsClaimed'
       /\ Planned => averaging' = averaging /\ warnings' = warnings]_vars

\* target mode asking for more outputs than the occupancy gives
C9_Witness ==
    /\ pc = "loop"
    /\ self_avg_desc_per_site = PyInt(3)
    /\ SumTo(counts, stn.n_sites) > 0
    /\ averaging = 1
    /\ ZeroAveragingWarning \in warnings

\* ----------------------------------------------------------------- C1

\* C1: whenever _get_descriptors returns, the rows of the descriptor array,
\* the labels and sum(planned_count) are equally many; the array has that
\* many rows from its allocation on.
C1_RowsLabelsPlanAgree ==
    /\ Planned => DOMAIN descs = 0..(SumTo(nr_of_descs, stn.n_sites) - 1)
    /\ result = "returned" => DOMAIN desc_to_site = DOMAIN descs

\* returned: one site with two rows, one insufficiently occupied site
C1_Witness ==
    /\ result = "returned"
    /\ Cardinality(DOMAIN descs) = 3
    /\ \E s \in Sites : nr_of_descs[s] = 2
    /\ \E s \in Sites : counts[s] > 0 /\ counts[s] < averaging

\* ----------------------------------------------------------------- C6

StillActive == \E s \in DOMAIN allowed : allowed[s]

\* C6: if a site is still allowed after the last frame, the run fails with
\* an error and returns neither array.
C6_ActiveAtEndFails ==
    pc = "done" /\ StillActive =>
        /\ result = "AssertionError"
        /\ desc_to_site = Empty

\* a trajectory without frames: no site is ever exhausted
C6_Witness ==
    /\ pc = "done"
    /\ StillActive
    /\ result = "AssertionError"

\* ----------------------------------------------------------------- C5

Labelled(s) == {i \in DOMAIN desc_to_site : desc_to_site[i] = s}

\* C5: a site with counts[s] = 0 yields no row: the run either returns no
\* row labelled s or fails with an error.
C5_ZeroCountSiteExcluded ==
    pc = "done" =>
        \A s \in Sites :
            counts[s] = 0 => result \in Errors \/ Labelled(s) = {}

\* ----------------------------------------------------- C2, C3, C4: rows

Frames == 1..Len(site_traj)

\* the entities assigned to site s in frame k of site_traj
Occupants(k, s) == {e \in DOMAIN site_traj[k] : site_traj[k][e] = s}

\* the raw samples of site s: one per (frame, entity) assigned to s, which
\* is what the descriptor engine computes a vector for while s is allowed
RawSamples(s) == {p \in Frames \X Entities : site_traj[p[1]][p[2]] = s}

\* the frames in which site s is occupied
OccupiedFrames(s) == {k \in Frames : Occupants(k, s) # {}}

\* frame order, then entity order within a frame
Before(p, q) == p[1] < q[1] \/ (p[1] = q[1] /\ p[2] < q[2])

\* the n-th raw sample of s (from 1), and the n-th frame in which s is occupied
NthSample(s, n) ==
    CHOOSE p \in RawSamples(s) :
        Cardinality({q \in RawSamples(s) : Before(q, p)}) = n - 1
NthOccupiedFrame(s, n) ==
    CHOOSE k \in OccupiedFrames(s) :
        Cardinality({j \in OccupiedFrames(s) : j < k}) = n - 1

\* row j (from 0) of the rows labelled s
RowOf(s, j) ==
    CHOOSE i \in Labelled(s) : Cardinality({k \in Labelled(s) : k < i}) = j

\* the samples and the frames whose vectors were added into row i
RowSamples(i) == {<<descs[i][j].t, descs[i][j].e>> : j \in 1..Len(descs[i])}
RowFrames(i) == {descs[i][j].t : j \in 1..Len(descs[i])}

\* row i is the mean of exactly d raw vectors of site s: d different
\* samples of s, each divided by d
MeanOfSamples(i, d, s) ==
    /\ Len(descs[i]) = d
    /\ Cardinality(RowSamples(i)) = d
    /\ RowSamples(i) \subseteq RawSamples(s)
    /\ \A j \in 1..Len(descs[i]) : descs[i][j].div = d

\* row i holds exactly one sample from each frame of F and nothing else
OnePerFrame(i, F) ==
    /\ RowFrames(i) = F
    /\ Len(descs[i]) = Cardinality(F)

\* ----------------------------------------------------------------- C2

\* C2 as stated: a site with counts[s] = k * averaging (k >= 1) has exactly
\* k rows, each the mean of exactly `averaging` raw vectors of the site,
\* and none of the site's raw samples is discarded.
C2_NoSampleDiscarded ==
    result = "returned" =>
        \A s \in Sites :
            counts[s] >= 1 /\ counts[s] % averaging = 0 =>
                /\ Cardinality(Labelled(s)) = counts[s] \div averaging
                /\ \A i \in Labelled(s) : MeanOfSamples(i, averaging, s)
                /\ RawSamples(s) \subseteq UNION {RowSamples(i) : i \in Labelled(s)}

\* C2 amended: ... and every frame in which the site is occupied gives
\* exactly one raw vector to these rows; of several entities on the site in
\* one frame, one's vector is used and the others' are discarded.
C2_OneSamplePerOccupiedFrame ==
    result = "returned" =>
        \A s \in Sites :
            counts[s] >= 1 /\ counts[s] % averaging = 0 =>
                /\ Cardinality(Labelled(s)) = counts[s] \div averaging
                /\ \A i \in Labelled(s) : MeanOfSamples(i, averaging, s)
                /\ \A k \in OccupiedFrames(s) :
                    Cardinality({p \in UNION {RowSamples(i) : i \in Labelled(s)} :
                                    p[1] = k}) = 1

\* returned: a site with two full windows of at least two samples
C2_Witness ==
    /\ result = "returned"
    /\ \E s \in Sites :
        /\ averaging >= 2
        /\ counts[s] = 2 * averaging
        /\ Cardinality(Labelled(s)) = 2

\* ----------------------------------------------------------------- C3

\* counts[s] = q * d + r with q >= 1 and 0 < r < d, for d = averaging
HasRemainder(s) == counts[s] >= averaging /\ counts[s] % averaging # 0

\* a sample in some row, of any site
Used(p) == \E i \in DOMAIN descs : p \in RowSamples(i)

\* C3 as stated: such a site has exactly q rows; row j is the mean of the
\* site's raw samples number j*d+1 .. (j+1)*d in frame order; the trailing
\* samples are in no row.
C3_RowsAreWindowsOfRawSamples ==
    result = "returned" =>
        \A s \in Sites :
            HasRemainder(s) =>
                LET d == averaging
                    q == counts[s] \div d
                    n == Cardinality(RawSamples(s))
                IN /\ Cardinality(Labelled(s)) = q
                   /\ \A j \in 0..(q - 1) :
                        /\ MeanOfSamples(RowOf(s, j), d, s)
                        /\ RowSamples(RowOf(s, j)) =
                            {NthSample(s, m) : m \in (j * d + 1)..((j + 1) * d)}
                   /\ \A m \in (q * d + 1)..n : ~Used(NthSample(s, m))

\* C3 amended: such a site has exactly q rows; row j is the mean of d raw
\* vectors of the site, one from each of the frames number j*d+1 ..
\* (j+1)*d among the frames in which the site is occupied (of several
\* entities on the site in one frame one's vector is used); the samples of
\* the trailing r occupied frames are in no row.
C3_RowsAreWindowsOfOccupiedFrames ==
    result = "returned" =>
        \A s \in Sites :
            HasRemainder(s) =>
                LET d == averaging
                    q == counts[s] \div d
                IN /\ Cardinality(Labelled(s)) = q
                   /\ \A j \in 0..(q - 1) :
                        /\ MeanOfSamples(RowOf(s, j), d, s)
                        /\ OnePerFrame(RowOf(s, j),
                            {NthOccupiedFrame(s, m) : m \in (j * d + 1)..((j + 1) * d)})
                   /\ \A m \in (q * d + 1)..counts[s] :
                        \A p \in RawSamples(s) :
                            p[1] = NthOccupiedFrame(s, m) => ~Used(p)

\* the claim's example: one site, d = 2, occupied in 5 frames, two rows
C3_Witness ==
    /\ result = "returned"
    /\ stn.n_sites = 1
    /\ averaging = 2
    /\ counts[0] = 5
    /\ Labelled(0) = {0, 1}
    /\ RowFrames(0) = {NthOccupiedFrame(0, 1), NthOccupiedFrame(0, 2)}
    /\ RowFrames(1) = {NthOccupiedFrame(0, 3), NthOccupiedFrame(0, 4)}
    /\ ~Used(<<NthOccupiedFrame(0, 5), 1>>)

\* ----------------------------------------------------------------- C4

Undersized(s) == 0 < counts[s] /\ counts[s] < averaging

\* C4 as stated: a site with 0 < counts[s] < averaging has exactly one row,
\* the mean of all raw vectors of the site; its divisor is counts[s], its
\* planned_count 1, and the warning does not stop the run.
C4_OneRowOfAllRawSamples ==
    pc = "done" =>
        \A s \in Sites :
            Undersized(s) =>
                /\ result = "returned"
                /\ InsufficientWarning \in warnings
                /\ averagings[s] = counts[s] /\ nr_of_descs[s] = 1
                /\ Cardinality(Labelled(s)) = 1
                /\ \A i \in Labelled(s) :
                    /\ RowSamples(i) = RawSamples(s)
                    /\ \A j \in 1..Len(descs[i]) : descs[i][j].div = Len(descs[i])

\* C4 amended: ... exactly one row, the mean of counts[s] raw vectors of
\* the site, one from each frame in which the site is occupied (of several
\* entities on the site in one frame one's vector is used).
C4_OneRowOfOccupiedFrames ==
    pc = "done" =>
        \A s \in Sites :
            Undersized(s) =>
                /\ result = "returned"
                /\ InsufficientWarning \in warnings
                /\ averagings[s] = counts[s] /\ nr_of_descs[s] = 1
                /\ Cardinality(Labelled(s)) = 1
                /\ \A i \in Labelled(s) :
                    /\ MeanOfSamples(i, counts[s], s)
                    /\ OnePerFrame(i, OccupiedFrames(s))

\* returned: a site occupied twice under a window of three
C4_Witness ==
    /\ result = "returned"
    /\ averaging = 3
    /\ \E s \in Sites :
        /\ counts[s] = 2
        /\ \E i \in Labelled(s) : Len(descs[i]) = 2 /\ descs[i][1].div = 2

\* ---------------------------------------------------------------- C11

\* every frame whose vector is in row i is earlier than every frame whose
\* vector is in row j
RowEarlier(i, j) ==
    \A a \in 1..Len(descs[i]) : \A b \in 1..Len(descs[j]) :
        descs[i][a].t < descs[j][b].t

\* C11: the returned labels are in ascending order of site id, every site s
\* has nr_of_descs[s] rows labelled s, and within a site's rows an earlier
\* row holds an earlier window (slot 0 before slot 1, ...).
C11_LabelsGroupedAscending ==
    result = "returned" =>
        /\ \A i, j \in DOMAIN desc_to_site :
            i < j => desc_to_site[i] <= desc_to_site[j]
        /\ \A s \in Sites : Cardinality(Labelled(s)) = nr_of_descs[s]
        /\ \A i, j \in DOMAIN desc_to_site :
            i < j /\ desc_to_site[i] = desc_to_site[j] => RowEarlier(i, j)

\* returned: site 0 with two filled rows before the row of site 1
C11_Witness ==
    /\ result = "returned"
    /\ stn.n_sites = 2
    /\ nr_of_descs[0] = 2 /\ nr_of_descs[1] = 1
    /\ Len(descs[0]) >= 1 /\ Len(descs[1]) >= 1 /\ Len(descs[2]) >= 1
    /\ desc_to_site[0] = 0 /\ desc_to_site[1] = 0 /\ desc_to_site[2] = 1

\* ---------------------------------------------------------------- C12

\* desc_index[s] minus the start of the row block of s
SlotIndex(s) == desc_index[s] - SumTo(nr_of_descs, s)

\* C12: at every point of the accumulation pass, every site s has
\* 0 <= slot index <= nr_of_descs[s].
C12_SlotIndexBounded ==
    Planned => \A s \in Sites :
        0 <= SlotIndex(s) /\ SlotIndex(s) <= nr_of_descs[s]

\* ---------------------------------------------------------------- C13

\* C13: at every frame boundary of the accumulation pass (before the first
\* frame and after each frame's completion step) every site that is still
\* allowed has 0 <= count_of_site[s] < averagings[s]; a window that fills up
\* is closed in the frame that filled it.
C13_FillBelowDivisor ==
    pc = "loop" => \A s \in Sites :
        allowed[s] => 0 <= count_of_site[s] /\ count_of_site[s] < averagings[s]

\* ---------------------------------------------------------------- C14

\* the raw vectors the descriptor engine has returned so far, as
\* (frame, entity) pairs
EngineSamples ==
    {p \in (1..Len(soaper_calls)) \X Entities :
        soaper_calls[p[1]].called /\ p[2] \in soaper_calls[p[1]].entities}

\* the site whose block of rows contains row i
OwnerOf(i) ==
    CHOOSE s \in Sites :
        SumTo(nr_of_descs, s) <= i /\ i < SumTo(nr_of_descs, s + 1)

\* the number of times sample p was added into row i
TimesAdded(p, i) ==
    Cardinality({j \in 1..Len(descs[i]) : <<descs[i][j].t, descs[i][j].e>> = p})

\* C14: no raw sample is double-counted.  Every vector in a row came from
\* the descriptor engine; every vector the engine returned was added once
\* to one row, a row of the site its entity was on, or to no row at all.
C14_NoDoubleCounting ==
    Planned =>
        /\ \A i \in DOMAIN descs : RowSamples(i) \subseteq EngineSamples
        /\ \A p \in EngineSamples :
            LET rows == {i \in DOMAIN descs : p \in RowSamples(i)}
            IN /\ Cardinality(rows) <= 1
               /\ \A i \in rows :
                    /\ TimesAdded(p, i) = 1
                    /\ OwnerOf(i) = site_traj[p[1]][p[2]]

\* two sites have each received a vector, and the engine returned a vector
\* that is in no row
C14_Witness ==
    /\ pc = "loop"
    /\ \E i, j \in DOMAIN descs :
        /\ i # j /\ OwnerOf(i) # OwnerOf(j)
        /\ Len(descs[i]) >= 1 /\ Len(descs[j]) >= 1
    /\ \E p \in EngineSamples : ~Used(p)

\* ---------------------------------------------------------------- C15

\* the sites of sn with fewer than four vertices
FewVertices == {s \in 0..(sn.n_sites - 1) : sn.vertices.val[s].n < 4}

\* compute_volumes was called on a SiteNetwork with vertices and has ended
VolumesEnded ==
    vol_pc = "done" /\ sn.kind = "SiteNetwork" /\ sn.vertices.kind = "list"

\* C15: with error_on_insufficient_coord = True, a site with fewer than 4
\* vertices makes compute_volumes raise InsufficientCoordinatingAtomsError
\* and neither site_volumes nor site_surface_areas is added; with False,
\* such a site gets volume 0 and surface area NaN, the following sites are
\* processed, and both attributes are added.
C15_InsufficientVertices ==
    VolumesEnded /\ FewVertices # {} =>
        IF error_on_insufficient_coord
        THEN /\ vol_result = "InsufficientCoordinatingAtomsError"
             /\ DOMAIN site_attributes = {}
        ELSE /\ vol_result = "returned"
             /\ DOMAIN site_attributes = {site_volumes, site_surface_areas}
             /\ \A s \in FewVertices :
                    /\ site_attributes[site_volumes][s] = Float(0)
                    /\ site_attributes[site_surface_areas][s] = NaN
             /\ \A s \in (0..(sn.n_sites - 1)) \ FewVertices :
                    /\ site_attributes[site_volumes][s] \in {HullVolume(s), NaN}
                    /\ site_attributes[site_surface_areas][s] \in {HullArea(s), NaN}

\* error_on_insufficient_coord = False: site 0 has three vertices, site 1
\* after it has a hull, and both attributes were added
C15_Witness ==
    /\ VolumesEnded
    /\ ~error_on_insufficient_coord
    /\ sn.n_sites >= 2
    /\ sn.vertices.val[0].n = 3
    /\ vol_result = "returned"
    /\ site_attributes[site_volumes][0] = Float(0)
    /\ site_attributes[site_volumes][1] = HullVolume(1)

\* ---------------------------------------------------------------- C16

\* the entities of the frame the next loop step processes that have a valid
\* site id whose site is still allowed, and those of them on site s
SelectedNow ==
    {e \in Entities :
        /\ site_traj[t + 1][e] # SITE_UNKNOWN
        /\ allowed[site_traj[t + 1][e]]}
SelectedOn(s) == {e \in SelectedNow : site_traj[t + 1][e] = s}

\* the vector of entity e of the frame being processed, divided by the
\* divisor of site s
Contribution(e, s) == [t |-> t + 1, e |-> e, div |-> averagings[s]]

\* the terms a loop step appended to row i
Appended(i) == SubSeq(descs'[i], Len(descs[i]) + 1, Len(descs'[i]))

\* a loop step raised the fill of s by k, and then closed the window if it
\* was full
FillGrowsBy(s, k) ==
    IF count_of_site[s] + k = averagings[s]
    THEN count_of_site'[s] = 0 /\ desc_index'[s] = desc_index[s] + 1
    ELSE count_of_site'[s] = count_of_site[s] + k /\ desc_index'[s] = desc_index[s]

\* a loop step is taken
LoopStep == pc = "loop" /\ t' = t + 1

\* C16 as stated: every selected entity adds its own vector, divided by
\* averagings[s], to row desc_index[s] of its site s and raises
\* count_of_site[s] by one: k entities on s add k vectors and raise it by k.
C16_EveryEntityContributes ==
    [][LoopStep =>
        \A s \in Sites :
            LET k == Cardinality(SelectedOn(s))
                i == desc_index[s]
            IN k > 0 =>
                /\ SubSeq(descs'[i], 1, Len(descs[i])) = descs[i]
                /\ Len(Appended(i)) = k
                /\ \A e \in SelectedOn(s) :
                    \E j \in 1..Len(Appended(i)) : Appended(i)[j] = Contribution(e, s)
                /\ FillGrowsBy(s, k)]_vars

\* C16 amended: a site s with at least one selected entity in the frame
\* gets the vector of one of them, divided by averagings[s], added to row
\* desc_index[s], and count_of_site[s] is raised by one, whatever the
\* number of selected entities on s.
C16_OneEntityPerSiteContributes ==
    [][LoopStep =>
        \A s \in Sites :
            LET i == desc_index[s]
            IN IF SelectedOn(s) # {}
               THEN /\ SubSeq(descs'[i], 1, Len(descs[i])) = descs[i]
                    /\ Len(Appended(i)) = 1
                    /\ \E e \in SelectedOn(s) : Appended(i)[1] = Contribution(e, s)
                    /\ FillGrowsBy(s, 1)
               ELSE \A r \in DOMAIN descs :
                        OwnerOf(r) = s => descs'[r] = descs[r]]_vars

\* the last frame processed had two selected entities on one site, and one
\* of their vectors is in a row
C16_Witness ==
    /\ pc = "loop" /\ t >= 1
    /\ \E e1, e2 \in soaper_calls[t].entities :
        /\ e1 # e2
        /\ site_traj[t][e1] = site_traj[t][e2]
        /\ \E i \in DOMAIN descs : <<t, e1>> \in RowSamples(i)
        /\ ~Used(<<t, e2>>)

\* ---------------------------------------------------------------- C17

\* the entities on site s in the frame the next loop step processes
OnSiteNow(s) == {e \in Entities : site_traj[t + 1][e] = s}

\* C17: a site whose desc_index reaches its max_index is not allowed from
\* the end of that frame on; a site that is not allowed stays so, and in a
\* later frame none of the entities on it is passed to the descriptor engine
\* and none of its rows changes.
C17_ExhaustedIsAbsorbing ==
    [][LoopStep =>
        \A s \in Sites :
            /\ desc_index'[s] = max_index[s] => ~allowed'[s]
            /\ ~allowed[s] =>
                /\ ~allowed'[s]
                /\ OnSiteNow(s) \cap soaper_calls'[t + 1].entities = {}
                /\ \A r \in DOMAIN descs : OwnerOf(r) = s => descs'[r] = descs[r]]_vars

\* an occupied site is exhausted, and the last frame processed had an
\* entity on it that was not passed to the engine
C17_Witness ==
    /\ pc = "loop" /\ t >= 2
    /\ \E s \in Sites :
        /\ counts[s] > 0
        /\ ~allowed[s]
        /\ desc_index[s] = max_index[s]
        /\ \E e \in Entities :
            site_traj[t][e] = s /\ e \notin soaper_calls[t].entities

\* ---------------------------------------------------------------- C18

\* C18: in each frame the descriptor engine is invoked at most once, exactly
\* when some entity of the frame has a valid site id whose site is still
\* allowed, and with exactly those entities; in a frame without such an
\* entity the engine is not invoked and descs, desc_index, count_of_site
\* and allowed stay as they are.
C18_EngineCalledWhenSelected ==
    [][LoopStep =>
        /\ soaper_calls' =
            Append(soaper_calls, [called |-> SelectedNow # {}, entities |-> SelectedNow])
        /\ SelectedNow = {} =>
            UNCHANGED <<descs, desc_index, count_of_site, allowed>>]_vars

\* ---------------------------------------------------------------- C19

\* C19: counting and accumulation use the same site_traj; when it has at
\* least one frame, no site is allowed after the last frame, whatever its
\* occupancy, and the final assertion passes.
C19_AllExhaustedAtEnd ==
    Len(site_traj) >= 1 =>
        /\ pc = "loop" /\ t = Len(site_traj) => ~StillActive
        /\ pc = "done" => result = "returned" /\ ~StillActive

\* a run that returned with a never-occupied site and a site occupied in
\* fewer frames than `averaging`
C19_Witness ==
    /\ pc = "done" /\ result = "returned"
    /\ Len(site_traj) >= 1
    /\ \E s1, s2 \in Sites :
        /\ counts[s1] = 0
        /\ 0 < counts[s2] /\ counts[s2] < averaging

\* ---------------------------------------------------------------- C20

\* the rows of site s: [sum(nr_of_descs[:s]), sum(nr_of_descs[:s+1]))
BlockOf(s) == SumTo(nr_of_descs, s)..(SumTo(nr_of_descs, s + 1) - 1)

\* C20: while site s is allowed, desc_index[s] is a row of the block of s
\* and a row of descs; every vector in a row is of an entity that was on
\* the site the row is labelled with.
C20_WritesStayInBlock ==
    Planned =>
        /\ \A s \in Sites :
            allowed[s] => desc_index[s] \in BlockOf(s) \cap DOMAIN descs
        /\ \A s \in Sites : \A i \in BlockOf(s) : \A j \in 1..Len(descs[i]) :
            site_traj[descs[i][j].t][descs[i][j].e] = s

\* both sites are allowed and past their first row, which holds a vector
C20_Witness ==
    /\ pc = "loop"
    /\ stn.n_sites = 2
    /\ \A s \in Sites :
        /\ allowed[s]
        /\ desc_index[s] > SumTo(nr_of_descs, s)
        /\ Len(descs[SumTo(nr_of_descs, s)]) >= 1

\* ---------------------------------------------------------------- C21

\* call number i of the log was made inside the `with` block of the object:
\* an __enter__ came before it and no __exit__ was called since
InsideWith(i) ==
    \E j \in 1..(i - 1) :
        /\ zeo_log[j].call = "__enter__"
        /\ \A k \in (j + 1)..(i - 1) : zeo_log[k].call # "__exit__"

\* C21: a voronoi call made before __enter__ or after __exit__ raises
\* ValueError and neither runs the external tool nor writes into the
\* temporary directory.
C21_VoronoiOnlyInsideWith ==
    \A i \in 1..Len(zeo_log) :
        zeo_log[i].call = "voronoi" /\ ~InsideWith(i) =>
            /\ zeo_log[i].result = "ValueError"
            /\ ~zeo_log[i].ran_tool
            /\ ~zeo_log[i].wrote

\* ---------------------------------------------------------------- C22

\* the recenterings of site s on which qhull fails, and the smallest hull
\* volume of site s over all recenterings
FailedRecenterings(s) ==
    {r \in 0..(n_recenterings - 1) : st.positions[s].hulls[r] = QhullFails}
MinHullVolume(s) ==
    CHOOSE v \in 1..MaxVolume :
        /\ \E r \in 0..(n_recenterings - 1) : st.positions[s].hulls[r] = v
        /\ \A r \in 0..(n_recenterings - 1) : st.positions[s].hulls[r] >= v

\* compute_accessable_volumes has returned, having tried at least one
\* recentering per site
AccessableReturned ==
    /\ vol_pc = "done" /\ vol_result = "returned"
    /\ st.kind = "SiteTrajectory"
    /\ n_recenterings >= 1

\* C22: the value stored for a site in accessable_site_volumes is NaN when
\* qhull failed for the site in some recentering, and otherwise the smallest
\* hull volume over the n_recenterings recenterings.
C22_NaNOnQhullFailure ==
    AccessableReturned =>
        \A s \in 0..(st.n_sites - 1) :
            site_attributes[accessable_site_volumes][s] =
                IF FailedRecenterings(s) # {} THEN NaN ELSE Float(MinHullVolume(s))

====
